---- MODULE Spec2Model ----
(***************************************************************************)
(* RepoNexus: the analysis cache (lib/cache.ts) and the analysis           *)
(* orchestration of the application component (App.tsx): handleAnalyze,    *)
(* syncRepositories, fetchRepos, handleDeepSyncAll, handleSaveSettings.    *)
(*                                                                         *)
(* An action is one synchronous segment of a handler: the code between two *)
(* awaits runs to completion before any other handler runs (JavaScript's   *)
(* run-to-completion), and at an await any other handler may be scheduled. *)
(***************************************************************************)
EXTENDS Integers, Sequences, FiniteSets, Bags, TLC

VARIABLES
    storage,      \* window.localStorage: key -> stored string
    now,          \* Date.now()
    puts,         \* history: the latest setCachedAnalysis call per repoId
    repos,        \* App state: repositories fetched from GitHub
    localRepos,   \* App state: repositories found by local scans
    selectedRepo, \* App state: the repository whose modal is open, or 0
    analysis,     \* App state: the analysis shown in the modal
    syncLimit,    \* App state: the sync limit of the settings form
    closureLimit, \* the syncLimit that the syncRepositories callback closed over
    isSyncing,    \* App state: the sync overlay is shown
    loading,      \* App state: a repository list fetch is running
    calls,        \* bag of handleAnalyze invocations suspended at an await
    fetches,      \* bag of fetchRepos invocations suspended at an await (and of
                  \* the scan and delete flows, where those are modelled)
    syncs,        \* bag of syncRepositories runs suspended at an await
    deeps,        \* bag of handleDeepSyncAll runs suspended at an await
    started,      \* history: how many handlers the user has started
    last          \* history: the handler segment that ran last

vars == <<storage, now, puts, repos, localRepos, selectedRepo, analysis,
          syncLimit, closureLimit, isSyncing, loading, calls, fetches, syncs,
          deeps, started, last>>

appVars == <<repos, localRepos, selectedRepo, analysis, syncLimit, closureLimit,
             isSyncing, loading, calls, fetches, syncs, deeps, started>>

(***************************************************************************)
(* Bounds of the model.                                                    *)
(***************************************************************************)
MaxClock == 1
MaxStarts == 3
MaxBatchStarts == 2
MaxLimit == 1

(***************************************************************************)
(* Program constants.                                                      *)
(***************************************************************************)
CACHE_SCHEMA_VERSION == 1
CACHE_KEY_PREFIX == "repoAnalysis_"
CACHE_VERSION_KEY == "cacheSchemaVersion"
ANALYSIS_KEY_PREFIX == "analysis_"
DefaultSyncLimit == 20

(***************************************************************************)
(* localStorage.  A key is a prefix and a repository id (0 for the keys    *)
(* that carry no id).  A stored string is either the JSON text of a value  *)
(* or a text that JSON.parse rejects.                                      *)
(***************************************************************************)
Key(prefix, id) == [p |-> prefix, id |-> id]

Null == [kind |-> "null"]
Garbage == [kind |-> "garbage"]

getItem(st, k) == IF k \in DOMAIN st THEN st[k] ELSE Null

setItem(st, k, v) == [x \in DOMAIN st \cup {k} |-> IF x = k THEN v ELSE st[x]]

removeItem(st, k) == [x \in DOMAIN st \ {k} |-> st[x]]

\* JSON.stringify of a JSON-safe value: the text of that value.
JSONstringify(v) == [kind |-> "json", val |-> v]

\* JSON.parse: the value of a JSON text; throws on any other text.
JSONparse(s) ==
    IF s.kind = "json" THEN [ok |-> TRUE, val |-> s.val] ELSE [ok |-> FALSE]

(***************************************************************************)
(* Values.                                                                 *)
(***************************************************************************)
RepoIds == {1, 2}
LocalIds == {3}
Levels == {"superficial", "detailed"}

\* The texts a README context can be.
ReadmeText == "# readme"
NoReadmeFound == "No README found."
NoReadmeContent == "No README content found for this repository."
NoReadmeDeep == "No README"

\* An AnalysisResult.  pulse stands for the provider's payload (projectPulse,
\* resumePoints, forgottenIdeas, reorgAdvice, detailedDescription): the empty
\* payload, or the payload the provider computed for a repository at a level.
\* vitality tells whether the payload carries the key vitalityScore.
EmptyPulse == [repo |-> 0, level |-> "none"]

Result(id, level, vitality) ==
    [pulse |-> [repo |-> id, level |-> level], vitality |-> vitality]

AnalysisOf(result, status, level, readme, err) ==
    [pulse |-> result.pulse, vitality |-> result.vitality, status |-> status,
     level |-> level, fullReadme |-> readme, errorDetails |-> err]

\* useState<AnalysisResult>({... status: 'idle', level: 'superficial'})
IdleAnalysis ==
    [pulse |-> EmptyPulse, vitality |-> FALSE, status |-> "idle",
     level |-> "superficial", fullReadme |-> "", errorDetails |-> ""]

(***************************************************************************)
(* lib/cache.ts                                                            *)
(***************************************************************************)
\* The repository snapshots and the analyses the cache is exercised with.
Snapshots ==
    {[id |-> 1, name |-> "repo", language |-> "null", description |-> "null"],
     [id |-> 2, name |-> "repo", language |-> "TypeScript", description |-> "d"]}

Payloads ==
    {AnalysisOf(Result(1, "superficial", v), "success", "superficial",
                ReadmeText, "") : v \in BOOLEAN}

CachedAnalysis(version, at, repo, an) ==
    [schemaVersion |-> version, cachedAt |-> at, repo |-> repo, analysis |-> an]

NoPut == [kind |-> "none"]

\* A getCachedAnalysis that returns null on a record of another schema version
\* and leaves the record where it is.
GetCachedAnalysisResultKeepStale(st, repoId) ==
    LET key == Key(CACHE_KEY_PREFIX, repoId)
        cached == getItem(st, key)
        parsed == JSONparse(cached)
    IN  IF cached = Null
        THEN [ret |-> Null, st |-> st]
        ELSE IF ~parsed.ok
        THEN [ret |-> Null, st |-> st]
        ELSE IF parsed.val.schemaVersion # CACHE_SCHEMA_VERSION
        THEN [ret |-> Null, st |-> st]
        ELSE [ret |-> [kind |-> "record", val |-> parsed.val], st |-> st]

\* getCachedAnalysis(repoId): what it returns and the storage it leaves.
GetCachedAnalysisResult(st, repoId) ==
    LET key == Key(CACHE_KEY_PREFIX, repoId)
        cached == getItem(st, key)
        parsed == JSONparse(cached)
    IN  IF cached = Null
        THEN [ret |-> Null, st |-> st]
        ELSE IF ~parsed.ok
        THEN [ret |-> Null, st |-> st]                       \* catch: return null
        ELSE IF parsed.val.schemaVersion # CACHE_SCHEMA_VERSION
        THEN [ret |-> Null, st |-> removeItem(st, key)]
        ELSE [ret |-> [kind |-> "record", val |-> parsed.val], st |-> st]

\* A setCachedAnalysis that builds its key from the snapshot's id.
SetCachedAnalysisResultBySnapshotId(st, repoId, repo, an, at, quotaOk) ==
    LET cached == CachedAnalysis(CACHE_SCHEMA_VERSION, at, repo, an)
        key == Key(CACHE_KEY_PREFIX, repo.id)
    IN  IF quotaOk THEN setItem(st, key, JSONstringify(cached)) ELSE st

\* setCachedAnalysis(repoId, repo, analysis): the storage it leaves; quotaOk is
\* whether localStorage.setItem accepts the write (it throws
\* QuotaExceededError otherwise, which the catch absorbs).
SetCachedAnalysisResult(st, repoId, repo, an, at, quotaOk) ==
    LET cached == CachedAnalysis(CACHE_SCHEMA_VERSION, at, repo, an)
        key == Key(CACHE_KEY_PREFIX, repoId)
    IN  IF quotaOk THEN setItem(st, key, JSONstringify(cached)) ELSE st

\* What getCachedAnalysis finds under the key of repoId: nothing, a text that
\* JSON.parse rejects, a record of another schema version, a current record.
FoundEntry(st, repoId) ==
    LET cached == getItem(st, Key(CACHE_KEY_PREFIX, repoId))
        parsed == JSONparse(cached)
    IN  IF cached = Null THEN "absent"
        ELSE IF ~parsed.ok THEN "unparsable"
        ELSE IF parsed.val.schemaVersion # CACHE_SCHEMA_VERSION THEN "stale"
        ELSE "current"

getCachedAnalysis(repoId) ==
    LET r == GetCachedAnalysisResult(storage, repoId)
    IN  /\ storage' = r.st
        /\ last' = [op |-> "getCachedAnalysis", id |-> repoId, ret |-> r.ret,
                    found |-> FoundEntry(storage, repoId)]
        /\ UNCHANGED <<now, puts>>
        /\ UNCHANGED appVars

setCachedAnalysis(repoId, repo, an, quotaOk) ==
    /\ storage' = SetCachedAnalysisResult(storage, repoId, repo, an, now, quotaOk)
    /\ puts' = [puts EXCEPT ![repoId] =
                  [kind |-> "put", repo |-> repo, analysis |-> an,
                   stored |-> quotaOk]]
    /\ last' = [op |-> "setCachedAnalysis", id |-> repoId]
    /\ UNCHANGED now
    /\ UNCHANGED appVars

\* Date.now() advances.
Tick ==
    /\ now < MaxClock
    /\ now' = now + 1
    /\ last' = [op |-> "tick"]
    /\ UNCHANGED <<storage, puts>>
    /\ UNCHANGED appVars

\* What localStorage may hold under a cache key when the page loads: nothing,
\* a text that is not JSON, a record of an older schema, a current record.
InitCacheEntries ==
    {Null, Garbage}
    \cup {JSONstringify(CachedAnalysis(v, 0, s, a)) :
            v \in {0, CACHE_SCHEMA_VERSION},
            s \in {x \in Snapshots : x.language = "null"},
            a \in {x \in Payloads : ~x.vitality}}

StorageOf(entries) ==
    [k \in {x \in DOMAIN entries : entries[x] # Null} |-> entries[k]]

AppIdle ==
    /\ repos = <<>>
    /\ localRepos = <<>>
    /\ selectedRepo = 0
    /\ analysis = IdleAnalysis
    /\ syncLimit = DefaultSyncLimit
    /\ closureLimit = DefaultSyncLimit
    /\ isSyncing = FALSE
    /\ loading = FALSE
    /\ calls = EmptyBag
    /\ fetches = EmptyBag
    /\ syncs = EmptyBag
    /\ deeps = EmptyBag
    /\ started = 0

InitCache ==
    /\ \E e \in [{Key(CACHE_KEY_PREFIX, i) : i \in RepoIds} -> InitCacheEntries] :
          storage = StorageOf(e)
    /\ now = 0
    /\ puts = [i \in RepoIds |-> NoPut]
    /\ last = [op |-> "init"]
    /\ AppIdle

NextCache ==
    \/ \E i \in RepoIds : getCachedAnalysis(i)
    \/ \E i \in RepoIds, s \in Snapshots, a \in Payloads, q \in BOOLEAN :
          setCachedAnalysis(i, s, a, q)
    \/ Tick

SpecCache == InitCache /\ [][NextCache]_vars

(***************************************************************************)
(* services/githubService.ts and services/geminiService.ts: what the       *)
(* awaited calls of the handlers resolve to.                               *)
(***************************************************************************)
\* fetchRepoReadme: the README text, the text it returns on HTTP 404, or a
\* thrown error on any other failure.
ReadmeOutcomes == {"ok", "http404", "error"}

FetchRepoReadmeResult(outcome) ==
    CASE outcome = "ok"      -> [threw |-> FALSE, text |-> ReadmeText]
      [] outcome = "http404" -> [threw |-> FALSE, text |-> NoReadmeFound]
      [] OTHER               -> [threw |-> TRUE, text |-> ""]

\* fetchRepoContents: the listing, or a thrown error on any failed response.
\* The outcomes the batch paths are exercised with: 404 resolves like ok.
BatchReadmeOutcomes == {"ok", "error"}

ContentsOutcomes == {"ok", "http404"}

FetchRepoContentsThrows(outcome) == outcome # "ok"

GithubApiError == "GitHub API Error: Not Found"

\* analyzeRepository: the parsed payload, or a thrown error whose message is
\* rewritten when it mentions 429.
ProviderOutcomes == {"ok", "http429"}

\* Whether the payload carries vitalityScore: the prompt asks for it, and the
\* payload is taken as the model returned it.  The interactive path, which
\* never reads the key, is exercised with payloads that carry it.
PayloadVitality == BOOLEAN

InteractiveVitality == {TRUE}

AnalyzeRepositoryError(outcome) ==
    IF outcome = "http429"
    THEN "Rate limit exceeded on OpenRouter. Please wait a moment."
    ELSE "An unexpected error occurred during AI analysis."

QuotaExceeded == "QuotaExceededError"

(***************************************************************************)
(* App.tsx: helpers.                                                       *)
(***************************************************************************)
Min(a, b) == IF a < b THEN a ELSE b

\* A bag of suspended invocations with one added, removed or replaced.
Add(bag, x) == bag (+) SetToBag({x})

Remove(bag, x) == bag (-) SetToBag({x})

Replace(bag, x, y) == Add(Remove(bag, x), y)

\* Array.prototype.slice(0, n) for n >= 0.
Slice(s, n) == SubSeq(s, 1, Min(n, Len(s)))

AnalysisKey(id) == Key(ANALYSIS_KEY_PREFIX, id)

IsLocal(id) == id \in LocalIds

\* readme_content of a local repository record.
ReadmeContent(id) == ReadmeText

\* The repositories the dashboard lists: [...repos, ...localRepos].
AllRepos == repos \o localRepos

Listed == {AllRepos[k] : k \in 1..Len(AllRepos)}

\* The modal covers the dashboard while a repository is selected, and the sync
\* overlay covers the whole page while isSyncing.
DashboardReachable == selectedRepo = 0 /\ ~isSyncing

ModalReachable == selectedRepo # 0 /\ ~isSyncing

FetchingAnalysis(level) ==
    [pulse |-> EmptyPulse, vitality |-> FALSE, status |-> "fetching_readme",
     level |-> level, fullReadme |-> "", errorDetails |-> ""]

ErrorAnalysis(prev, level, msg) ==
    [prev EXCEPT !.status = "error", !.level = level, !.errorDetails = msg]

\* A final record that always carries the level and context of a first pass.
FinalAnalysisFirstPass(result, level, readme) ==
    AnalysisOf(result, "success", "superficial", "", "")

\* const finalAnalysis = {...result, status: 'success', level, fullReadme}
FinalAnalysis(result, level, readme) ==
    AnalysisOf(result, "success", level, readme, "")

(***************************************************************************)
(* App.tsx: handleAnalyze.                                                 *)
(***************************************************************************)
\* A cache-hit test that serves a record only at exactly the requested level.
CacheHitExactLevel(cached, level) ==
    /\ cached # Null
    /\ cached.val.level = level

\* The cache-hit test of handleAnalyze on the parsed cache entry.
CacheHit(cached, level) ==
    /\ cached # Null
    /\ (level = "superficial" \/ cached.val.level = "detailed")

\* A context that is never taken from the cache entry.
CachedReadmeIgnored(cached) == ""

\* let readme = cachedAnalysis?.fullReadme || ""
CachedReadme(cached) ==
    IF cached = Null THEN "" ELSE cached.val.fullReadme

\* handleAnalyze(repo, level) up to its first await.  via names the control
\* that invoked it.
handleAnalyze(repo, level, via) ==
    LET raw == getItem(storage, AnalysisKey(repo))
        parsed == JSONparse(raw)
        cached == IF raw = Null THEN Null
                  ELSE [kind |-> "record", val |-> parsed.val]
        readme == CachedReadme(cached)
        ev(op) == [op |-> op, repo |-> repo, level |-> level, via |-> via]
    IN  /\ selectedRepo' = repo
        /\ UNCHANGED <<storage, now, puts, repos, localRepos, syncLimit,
                       closureLimit, isSyncing, loading, fetches, syncs, deeps>>
        /\ IF raw # Null /\ ~parsed.ok
           THEN \* JSON.parse throws outside the try block
                /\ last' = ev("analyze_throw")
                /\ UNCHANGED <<analysis, calls, started>>
           ELSE IF CacheHit(cached, level)
           THEN /\ analysis' = cached.val
                /\ last' = ev("analyze_hit")
                /\ UNCHANGED <<calls, started>>
           ELSE /\ started < MaxStarts
                /\ started' = started + 1
                /\ analysis' = FetchingAnalysis(level)
                /\ last' = ev("analyze_start")
                /\ calls' = Add(calls,
                      [repo |-> repo, level |-> level, cached |-> cached,
                       readme |-> readme,
                       pc |-> IF readme = "" THEN "readme"
                              ELSE IF level = "detailed" THEN "tree"
                              ELSE "provider"])

\* The analyze button of a repository card: handleAnalyze(repo).
ClickAnalyze(repo) ==
    /\ DashboardReachable
    /\ repo \in Listed
    /\ handleAnalyze(repo, "superficial", "card")

\* The "Retry Analysis" button of the modal: handleAnalyze(selectedRepo).
ClickRetry ==
    /\ ModalReachable
    /\ analysis.status = "error"
    /\ handleAnalyze(selectedRepo, "superficial", "retry")

\* The "Perform Deep Codebase Analysis" button of the modal:
\* handleAnalyze(selectedRepo, 'detailed').
ClickDeepAnalysis ==
    /\ ModalReachable
    /\ analysis.status = "success"
    /\ analysis.level = "superficial"
    /\ handleAnalyze(selectedRepo, "detailed", "deep")

\* The close button of the modal and the Escape key: setSelectedRepo(null).
CloseModal ==
    /\ selectedRepo # 0
    /\ selectedRepo' = 0
    /\ last' = [op |-> "close"]
    /\ UNCHANGED <<storage, now, puts, repos, localRepos, analysis, syncLimit,
                   closureLimit, isSyncing, loading, calls, fetches, syncs,
                   deeps, started>>

\* What handleAnalyze does once the README context is known: it fetches the
\* tree for a detailed request and calls the provider otherwise.
AfterReadme(call, readme) ==
    IF call.level = "detailed"
    THEN [an |-> [analysis EXCEPT !.status = "fetching_readme"],
          call |-> [call EXCEPT !.readme = readme, !.pc = "tree"]]
    ELSE [an |-> [analysis EXCEPT !.status = "analyzing",
                                  !.fullReadme = readme],
          call |-> [call EXCEPT !.readme = readme, !.pc = "provider"]]

\* fetchRepoReadme resolves or rejects inside handleAnalyze.
AnalyzeReadmeReturn(call, outcome) ==
    LET r == FetchRepoReadmeResult(outcome)
        readme == IF r.threw THEN NoReadmeContent ELSE r.text
        nxt == AfterReadme(call, readme)
    IN  /\ call.pc = "readme"
        /\ analysis' = nxt.an
        /\ calls' = Replace(calls, call, nxt.call)
        /\ last' = [op |-> "analyze_readme", repo |-> call.repo,
                    level |-> call.level, failed |-> outcome \in {"http404", "error"},
                    readme |-> readme]
        /\ UNCHANGED <<storage, now, puts, repos, localRepos, selectedRepo,
                       syncLimit, closureLimit, isSyncing, loading, fetches,
                       syncs, deeps, started>>

\* fetchRepoContents resolves or rejects inside handleAnalyze.
AnalyzeTreeReturn(call, outcome) ==
        /\ call.pc = "tree"
        /\ IF FetchRepoContentsThrows(outcome)
           THEN /\ analysis' = ErrorAnalysis(analysis, call.level, GithubApiError)
                /\ calls' = Remove(calls, call)
                /\ last' = [op |-> "analyze_error", repo |-> call.repo,
                            level |-> call.level, cached |-> call.cached,
                            readme |-> call.readme, providerOk |-> FALSE,
                            stage |-> "tree", outcome |-> outcome]
           ELSE /\ analysis' = [analysis EXCEPT !.status = "analyzing",
                                                !.fullReadme = call.readme]
                /\ calls' = Replace(calls, call, [call EXCEPT !.pc = "provider"])
                /\ last' = [op |-> "analyze_tree", repo |-> call.repo,
                            level |-> call.level, outcome |-> outcome]
        /\ UNCHANGED <<storage, now, puts, repos, localRepos, selectedRepo,
                       syncLimit, closureLimit, isSyncing, loading, fetches,
                       syncs, deeps, started>>

\* analyzeRepository resolves or rejects inside handleAnalyze.
AnalyzeProviderReturn(call, outcome, vitality, quotaOk) ==
    LET final == FinalAnalysis(Result(call.repo, call.level, vitality),
                               call.level, call.readme)
    IN  /\ call.pc = "provider"
        /\ calls' = Remove(calls, call)
        /\ IF outcome = "ok" /\ quotaOk
           THEN /\ storage' = setItem(storage, AnalysisKey(call.repo),
                                      JSONstringify(final))
                /\ analysis' = final
                /\ last' = [op |-> "analyze_success", repo |-> call.repo,
                            level |-> call.level, cached |-> call.cached,
                            readme |-> call.readme, providerOk |-> TRUE,
                            stage |-> "provider", outcome |-> outcome]
           ELSE /\ storage' = storage
                /\ analysis' = ErrorAnalysis(analysis, call.level,
                                  IF outcome = "ok" THEN QuotaExceeded
                                  ELSE AnalyzeRepositoryError(outcome))
                /\ last' = [op |-> "analyze_error", repo |-> call.repo,
                            level |-> call.level, cached |-> call.cached,
                            readme |-> call.readme,
                            providerOk |-> outcome = "ok",
                            stage |-> "provider", outcome |-> outcome]
        /\ UNCHANGED <<now, puts, repos, localRepos, selectedRepo, syncLimit,
                       closureLimit, isSyncing, loading, fetches, syncs, deeps,
                       started>>

(***************************************************************************)
(* App.tsx: syncRepositories, the standard batch.                          *)
(***************************************************************************)
SYNC_LIMIT_KEY == "sync_limit"
LAST_SYNC_COUNT_KEY == "last_sync_count"

\* The text of a number: n.toString().
Text(n) == [kind |-> "text", val |-> n]

\* The loop of syncRepositories from position i on: it passes every
\* repository that has a stored entry (if (!cached) is false) without an
\* await, and stops at the first one that has none, or behind the list.
RECURSIVE SyncScan(_, _, _)
SyncScan(list, i, st) ==
    IF i > Len(list) THEN i
    ELSE IF getItem(st, AnalysisKey(list[i])) # Null
    THEN SyncScan(list, i + 1, st)
    ELSE i

\* Number(localStorage.getItem('sync_limit')) || 20
InitialSyncLimit(stored) ==
    IF stored = Null \/ stored.val = 0 THEN DefaultSyncLimit ELSE stored.val

\* The sync limit of the saved settings.
SavedSyncLimit(st) == InitialSyncLimit(getItem(st, Key(SYNC_LIMIT_KEY, 0)))

\* repoList.slice(0, syncLimit), with the syncLimit of the callback's closure
\* (useCallback with an empty dependency list).
LimitedRepos(repoList) == Slice(repoList, closureLimit)

\* The setSyncProgress calls of the loop of syncRepositories on its way from
\* position from to position j: one at the head of every iteration.
SyncProgressReports(list, from, j) ==
    [n \in 1..(Min(j, Len(list)) - from + 1) |->
        [current |-> from + n - 2, total |-> Len(list),
         currentName |-> list[from + n - 1]]]

\* A run that leaves the loop without setIsSyncing(false).
SyncContinueKeepFlag(run, j, fresh) ==
    IF j > Len(run.list)
    THEN /\ syncs' = IF fresh THEN syncs ELSE Remove(syncs, run)
         /\ isSyncing' = IF fresh THEN TRUE ELSE isSyncing
         /\ last' = [op |-> "sync_stop", list |-> run.list, src |-> run.src,
                     configured |-> run.configured, i |-> j,
                     reports |-> SyncProgressReports(run.list,
                                    IF fresh THEN 1 ELSE run.i + 1, j)]
    ELSE /\ syncs' = IF fresh
                     THEN Add(syncs, [run EXCEPT !.i = j, !.pc = "readme"])
                     ELSE Replace(syncs, run, [run EXCEPT !.i = j, !.pc = "readme"])
         /\ isSyncing' = IF fresh THEN TRUE ELSE isSyncing
         /\ last' = [op |-> "sync_fetch", list |-> run.list, src |-> run.src,
                     configured |-> run.configured, i |-> j,
                     reports |-> SyncProgressReports(run.list,
                                    IF fresh THEN 1 ELSE run.i + 1, j)]

\* A syncRepositories run that continues at position j of its list: it is
\* suspended at fetchRepoReadme, or it has left the loop and ends.  run.src
\* and run.configured record the list it was given and the sync limit that the
\* saved settings held when it started, run.issued counts its
\* analyzeRepository calls.  setIsSyncing(true) is the first statement of a
\* run and setIsSyncing(false) the one behind its loop.
SyncContinue(run, j, fresh) ==
    IF j > Len(run.list)
    THEN /\ syncs' = IF fresh THEN syncs ELSE Remove(syncs, run)
         /\ isSyncing' = FALSE
         /\ last' = [op |-> "sync_stop", list |-> run.list, src |-> run.src,
                     configured |-> run.configured, i |-> j,
                     reports |-> SyncProgressReports(run.list,
                                    IF fresh THEN 1 ELSE run.i + 1, j)]
    ELSE /\ syncs' = IF fresh
                     THEN Add(syncs, [run EXCEPT !.i = j, !.pc = "readme"])
                     ELSE Replace(syncs, run, [run EXCEPT !.i = j, !.pc = "readme"])
         /\ isSyncing' = IF fresh THEN TRUE ELSE isSyncing
         /\ last' = [op |-> "sync_fetch", list |-> run.list, src |-> run.src,
                     configured |-> run.configured, i |-> j,
                     reports |-> SyncProgressReports(run.list,
                                    IF fresh THEN 1 ELSE run.i + 1, j)]

\* syncRepositories(token, repoList) up to its first await, on storage st.
syncRepositories(repoList, st) ==
    LET list == LimitedRepos(repoList)
        run == [src |-> repoList, configured |-> SavedSyncLimit(st), list |-> list,
                i |-> 1, pc |-> "readme", readme |-> "", issued |-> 0]
    IN  SyncContinue(run, SyncScan(list, 1, st), TRUE)

\* fetchRepoReadme resolves or rejects inside syncRepositories.
SyncReadmeReturn(run, outcome) ==
    LET r == FetchRepoReadmeResult(outcome)
    IN  /\ run.pc = "readme"
        /\ IF r.threw
           THEN SyncContinue(run, SyncScan(run.list, run.i + 1, storage), FALSE)
           ELSE /\ syncs' = Replace(syncs, run,
                               [run EXCEPT !.pc = "provider", !.readme = r.text,
                                           !.issued = run.issued + 1])
                /\ last' = [op |-> "sync_readme", repo |-> run.list[run.i]]
                /\ UNCHANGED isSyncing
        /\ UNCHANGED <<storage, now, puts, repos, localRepos, selectedRepo,
                       analysis, syncLimit, closureLimit, loading, calls,
                       fetches, deeps, started>>

\* analyzeRepository resolves or rejects inside syncRepositories.
SyncProviderReturn(run, outcome, vitality, quotaOk) ==
    LET repo == run.list[run.i]
        final == FinalAnalysis(Result(repo, "superficial", vitality),
                               "superficial", run.readme)
        st == IF outcome = "ok" /\ quotaOk
              THEN setItem(storage, AnalysisKey(repo), JSONstringify(final))
              ELSE storage
    IN  /\ run.pc = "provider"
        /\ storage' = st
        /\ SyncContinue(run, SyncScan(run.list, run.i + 1, st), FALSE)
        /\ UNCHANGED <<now, puts, repos, localRepos, selectedRepo, analysis,
                       syncLimit, closureLimit, loading, calls, fetches, deeps,
                       started>>

(***************************************************************************)
(* App.tsx: fetchRepos and handleSaveSettings.                             *)
(***************************************************************************)
\* The repository lists fetchUserRepos can return.
RemoteLists == {<<1, 2>>}

SavingSettings == \E f \in BagToSet(fetches) : f.saving

\* fetchRepos(shouldSync) up to its await of fetchUserRepos; saving tells that
\* handleSaveSettings awaits it.
fetchRepos(shouldSync, saving) ==
    /\ started < MaxBatchStarts
    /\ started' = started + 1
    /\ loading' = TRUE
    /\ fetches' = Add(fetches, [shouldSync |-> shouldSync, saving |-> saving])

\* The "Quick Sync" button: fetchRepos(true).
ClickQuickSync ==
    /\ DashboardReachable
    /\ ~loading
    /\ fetchRepos(TRUE, FALSE)
    /\ last' = [op |-> "fetch_start", shouldSync |-> TRUE]
    /\ UNCHANGED <<storage, now, puts, repos, localRepos, selectedRepo,
                   analysis, syncLimit, closureLimit, isSyncing, calls, syncs,
                   deeps>>

\* The refresh button: fetchRepos().
ClickRefresh ==
    /\ DashboardReachable
    /\ ~loading
    /\ fetchRepos(FALSE, FALSE)
    /\ last' = [op |-> "fetch_start", shouldSync |-> FALSE]
    /\ UNCHANGED <<storage, now, puts, repos, localRepos, selectedRepo,
                   analysis, syncLimit, closureLimit, isSyncing, calls, syncs,
                   deeps>>

\* fetchUserRepos resolves with data or rejects inside fetchRepos.
FetchReposReturn(f, ok, data, quotaOk) ==
    LET needSync == f.shouldSync
                    \/ getItem(storage, Key(LAST_SYNC_COUNT_KEY, 0)) # Text(Len(data))
        st == setItem(storage, Key(LAST_SYNC_COUNT_KEY, 0), Text(Len(data)))
    IN  /\ fetches' = Remove(fetches, f)
        /\ loading' = FALSE
        /\ IF ~ok
           THEN /\ last' = [op |-> "fetch_error"]
                /\ UNCHANGED <<storage, repos, syncs, isSyncing>>
           ELSE /\ repos' = data
                /\ IF ~needSync
                   THEN /\ last' = [op |-> "fetch_done"]
                        /\ UNCHANGED <<storage, syncs, isSyncing>>
                   ELSE IF ~quotaOk
                   THEN \* localStorage.setItem throws: the catch reports it
                        /\ last' = [op |-> "fetch_error"]
                        /\ UNCHANGED <<storage, syncs, isSyncing>>
                   ELSE /\ storage' = st
                        /\ syncRepositories(data, st)
        /\ UNCHANGED <<now, puts, localRepos, selectedRepo, analysis, syncLimit,
                       closureLimit, calls, deeps, started>>

\* The sync limit input of the settings form: setSyncLimit(parseInt(v) || 0).
SetSyncLimit(v) ==
    /\ DashboardReachable
    /\ syncLimit' = v
    /\ last' = [op |-> "set_limit"]
    /\ UNCHANGED <<storage, now, puts, repos, localRepos, selectedRepo,
                   analysis, closureLimit, isSyncing, loading, calls, fetches,
                   syncs, deeps, started>>

\* handleSaveSettings: it stores the settings and awaits fetchRepos().
handleSaveSettings(quotaOk) ==
    /\ DashboardReachable
    /\ ~SavingSettings
    /\ IF quotaOk
       THEN /\ storage' = setItem(storage, Key(SYNC_LIMIT_KEY, 0), Text(syncLimit))
            /\ fetchRepos(FALSE, TRUE)
            /\ last' = [op |-> "save_settings"]
       ELSE /\ last' = [op |-> "save_error"]
            /\ UNCHANGED <<storage, loading, fetches, started>>
    /\ UNCHANGED <<now, puts, repos, localRepos, selectedRepo, analysis,
                   syncLimit, closureLimit, isSyncing, calls, syncs, deeps>>

(***************************************************************************)
(* App.tsx: handleDeepSyncAll, the deep batch.                             *)
(***************************************************************************)
\* The loop of handleDeepSyncAll from position i on, up to its next await:
\* it passes every repository whose parsed entry carries vitalityScore, and
\* it throws out of the handler when JSON.parse rejects an entry (the parse
\* is outside the try block).
RECURSIVE DeepScan(_, _, _)
DeepScan(list, i, st) ==
    IF i > Len(list) THEN [i |-> i, verdict |-> "end"]
    ELSE LET raw == getItem(st, AnalysisKey(list[i]))
             parsed == JSONparse(raw)
         IN  IF raw = Null THEN [i |-> i, verdict |-> "work"]
             ELSE IF ~parsed.ok THEN [i |-> i, verdict |-> "throw"]
             ELSE IF parsed.val.vitality THEN DeepScan(list, i + 1, st)
             ELSE [i |-> i, verdict |-> "work"]

\* A handleDeepSyncAll run that continues at the position DeepScan found: it
\* is suspended at fetchRepoReadme (at analyzeRepository for a local
\* repository), or the handler has returned or thrown.  run.issued counts
\* the analyzeRepository calls of the run and run.configured records the sync
\* limit that the saved settings held when it started.
DeepContinue(run, d, fresh) ==
    IF d.verdict = "work"
    THEN LET repo == run.list[d.i]
             nxt == IF IsLocal(repo)
                    THEN [run EXCEPT !.i = d.i, !.pc = "provider",
                                     !.readme = ReadmeContent(repo),
                                     !.issued = run.issued + 1]
                    ELSE [run EXCEPT !.i = d.i, !.pc = "readme", !.readme = ""]
         IN  /\ deeps' = IF fresh THEN Add(deeps, nxt)
                         ELSE Replace(deeps, run, nxt)
             /\ last' = [op |-> "deep_work", list |-> run.list, i |-> d.i,
                         from |-> IF fresh THEN 1 ELSE run.i + 1]
    ELSE /\ deeps' = IF fresh THEN deeps ELSE Remove(deeps, run)
         /\ last' = [op |-> "deep_stop", list |-> run.list, i |-> d.i,
                     from |-> IF fresh THEN 1 ELSE run.i + 1,
                     threw |-> d.verdict = "throw"]

\* The "Deep Sync" button: handleDeepSyncAll up to its first await.
handleDeepSyncAll ==
    LET run == [list |-> AllRepos, i |-> 1, pc |-> "readme", readme |-> "",
                configured |-> SavedSyncLimit(storage), issued |-> 0]
        d == DeepScan(AllRepos, 1, storage)
    IN  /\ DashboardReachable
        /\ ~loading
        /\ ~isSyncing
        /\ started < MaxBatchStarts
        /\ started' = started + 1
        /\ DeepContinue(run, d, TRUE)
        /\ UNCHANGED <<storage, now, puts, repos, localRepos, selectedRepo,
                       analysis, syncLimit, closureLimit, isSyncing, loading,
                       calls, fetches, syncs>>

\* fetchRepoReadme resolves or rejects inside handleDeepSyncAll.
DeepReadmeReturn(run, outcome) ==
    LET r == FetchRepoReadmeResult(outcome)
        readme == IF r.threw THEN NoReadmeDeep ELSE r.text
    IN  /\ run.pc = "readme"
        /\ deeps' = Replace(deeps, run,
                           [run EXCEPT !.pc = "provider", !.readme = readme,
                                       !.issued = run.issued + 1])
        /\ last' = [op |-> "deep_readme", repo |-> run.list[run.i]]
        /\ UNCHANGED <<storage, now, puts, repos, localRepos, selectedRepo,
                       analysis, syncLimit, closureLimit, isSyncing, loading,
                       calls, fetches, syncs, started>>

\* analyzeRepository resolves or rejects inside handleDeepSyncAll.
DeepProviderReturn(run, outcome, vitality, quotaOk) ==
    LET repo == run.list[run.i]
        final == FinalAnalysis(Result(repo, "superficial", vitality),
                               "superficial", run.readme)
        st == IF outcome = "ok" /\ quotaOk
              THEN setItem(storage, AnalysisKey(repo), JSONstringify(final))
              ELSE storage
    IN  /\ run.pc = "provider"
        /\ storage' = st
        /\ DeepContinue(run, DeepScan(run.list, run.i + 1, st), FALSE)
        /\ UNCHANGED <<now, puts, repos, localRepos, selectedRepo, analysis,
                       syncLimit, closureLimit, isSyncing, loading, calls,
                       fetches, syncs, started>>

(***************************************************************************)
(* Specifications.                                                         *)
(***************************************************************************)
\* What localStorage may hold under an analysis key when the page loads:
\* nothing, a text that is not JSON, or an analysis an earlier session stored.
InitAnalysisEntries ==
    {Null, Garbage,
     JSONstringify(FinalAnalysis(Result(0, "superficial", FALSE),
                                 "superficial", ReadmeText)),
     JSONstringify(FinalAnalysis(Result(0, "detailed", TRUE),
                                 "detailed", ReadmeText))}

InitLimits == {Null, Text(1)}

\* The dashboard once the repository list is loaded and no handler is
\* running, on any content of the analysis entries.
Init ==
    /\ \E e \in [{AnalysisKey(i) : i \in RepoIds} -> InitAnalysisEntries] :
          storage = StorageOf(e)
    /\ now = 0
    /\ puts = [i \in RepoIds |-> NoPut]
    /\ repos \in RemoteLists
    /\ localRepos = <<>>
    /\ selectedRepo = 0
    /\ analysis = IdleAnalysis
    /\ syncLimit = DefaultSyncLimit
    /\ closureLimit = DefaultSyncLimit
    /\ isSyncing = FALSE
    /\ loading = FALSE
    /\ fetches = EmptyBag
    /\ calls = EmptyBag
    /\ syncs = EmptyBag
    /\ deeps = EmptyBag
    /\ started = 0
    /\ last = [op |-> "init"]

\* The interactive path: the user opens repositories, retries, asks for the
\* detailed analysis and closes the modal while the awaited calls return.
Next ==
    \/ \E r \in RepoIds : ClickAnalyze(r)
    \/ ClickRetry
    \/ ClickDeepAnalysis
    \/ CloseModal
    \/ \E c \in BagToSet(calls), o \in ReadmeOutcomes : AnalyzeReadmeReturn(c, o)
    \/ \E c \in BagToSet(calls), o \in ContentsOutcomes : AnalyzeTreeReturn(c, o)
    \/ \E c \in BagToSet(calls), o \in ProviderOutcomes,
          v \in InteractiveVitality, q \in BOOLEAN :
          AnalyzeProviderReturn(c, o, v, q)

Spec == Init /\ [][Next]_vars

\* The application after its first render and its mount effects: the effect
\* has called fetchRepos().
InitBatch ==
    /\ \E e \in [{AnalysisKey(i) : i \in RepoIds} -> InitAnalysisEntries],
          lim \in InitLimits :
          /\ storage = StorageOf(e @@ (Key(SYNC_LIMIT_KEY, 0) :> lim))
          /\ syncLimit = InitialSyncLimit(lim)
          /\ closureLimit = InitialSyncLimit(lim)
    /\ now = 0
    /\ puts = [i \in RepoIds |-> NoPut]
    /\ repos = <<>>
    /\ localRepos \in {<<>>, <<3>>}
    /\ selectedRepo = 0
    /\ analysis = IdleAnalysis
    /\ isSyncing = FALSE
    /\ loading = TRUE
    /\ fetches = SetToBag({[shouldSync |-> FALSE, saving |-> FALSE]})
    /\ calls = EmptyBag
    /\ syncs = EmptyBag
    /\ deeps = EmptyBag
    /\ started = 0
    /\ last = [op |-> "init"]

\* The batch paths: the repository list is fetched, the settings are saved,
\* and the standard and the deep batch run while the awaited calls return.
NextBatch ==
    \/ ClickQuickSync
    \/ ClickRefresh
    \/ \E f \in BagToSet(fetches), ok, q \in BOOLEAN, data \in RemoteLists :
          FetchReposReturn(f, ok, data, q)
    \/ \E v \in 0..MaxLimit : SetSyncLimit(v)
    \/ \E q \in BOOLEAN : handleSaveSettings(q)
    \/ \E r \in BagToSet(syncs), o \in BatchReadmeOutcomes : SyncReadmeReturn(r, o)
    \/ \E r \in BagToSet(syncs), o \in ProviderOutcomes,
          v \in PayloadVitality, q \in BOOLEAN :
          SyncProviderReturn(r, o, v, q)
    \/ handleDeepSyncAll
    \/ \E r \in BagToSet(deeps), o \in BatchReadmeOutcomes : DeepReadmeReturn(r, o)
    \/ \E r \in BagToSet(deeps), o \in ProviderOutcomes,
          v \in PayloadVitality, q \in BOOLEAN :
          DeepProviderReturn(r, o, v, q)

SpecBatch == InitBatch /\ [][NextBatch]_vars

(***************************************************************************)
(* The standard batch under fair scheduling.                               *)
(***************************************************************************)
\* The list is fetched and the settings are saved, and the standard batch
\* runs; every README fetch and every provider call of a run is answered.
NextSync ==
    \/ ClickQuickSync
    \/ ClickRefresh
    \/ \E f \in BagToSet(fetches), ok, q \in BOOLEAN, data \in RemoteLists :
          FetchReposReturn(f, ok, data, q)
    \/ \E q \in BOOLEAN : handleSaveSettings(q)
    \/ \E r \in BagToSet(syncs), o \in BatchReadmeOutcomes : SyncReadmeReturn(r, o)
    \/ \E r \in BagToSet(syncs), o \in ProviderOutcomes,
          v \in PayloadVitality, q \in BOOLEAN :
          SyncProviderReturn(r, o, v, q)

SyncAnswered ==
    \/ \E r \in BagToSet(syncs), o \in BatchReadmeOutcomes : SyncReadmeReturn(r, o)
    \/ \E r \in BagToSet(syncs), o \in ProviderOutcomes,
          v \in PayloadVitality, q \in BOOLEAN :
          SyncProviderReturn(r, o, v, q)

SpecSync == InitBatch /\ [][NextSync]_vars /\ WF_vars(SyncAnswered)

(***************************************************************************)
(* lib/cache.ts and App.tsx: the start-up migration.                       *)
(***************************************************************************)
\* clearCache(): it removes every key that starts with CACHE_KEY_PREFIX.
ClearCacheAll(st) ==
    [k \in {x \in DOMAIN st : x.p # CACHE_KEY_PREFIX} |-> st[k]]

\* storedVersion ? parseInt(storedVersion, 10) : 0
StoredVersionNumber(st) ==
    LET storedVersion == getItem(st, Key(CACHE_VERSION_KEY, 0))
    IN  IF storedVersion = Null THEN 0 ELSE storedVersion.val

\* migrateCacheIfNeeded(): the storage it leaves; quotaOk is whether
\* localStorage.setItem accepts the write of the marker.
MigrateCacheIfNeededResult(st, quotaOk) ==
    LET storedVersionNumber == StoredVersionNumber(st)
        cleared == IF storedVersionNumber < CACHE_SCHEMA_VERSION
                   THEN ClearCacheAll(st) ELSE st
    IN  IF storedVersionNumber = CACHE_SCHEMA_VERSION THEN st
        ELSE IF quotaOk
        THEN setItem(cleared, Key(CACHE_VERSION_KEY, 0), Text(CACHE_SCHEMA_VERSION))
        ELSE cleared

\* The effects of the first render: migrateCacheIfNeeded(), then fetchRepos().
Mount(quotaOk) ==
    /\ last.op = "init"
    /\ storage' = MigrateCacheIfNeededResult(storage, quotaOk)
    /\ loading' = TRUE
    /\ fetches' = Add(fetches, [shouldSync |-> FALSE, saving |-> FALSE])
    /\ last' = [op |-> "mount", quotaOk |-> quotaOk]
    /\ UNCHANGED <<now, puts, repos, localRepos, selectedRepo, analysis,
                   syncLimit, closureLimit, isSyncing, calls, syncs, deeps,
                   started>>

\* The schema-version markers a page load can meet: none, an older one, the
\* current one.
InitMarkers == {Null, Text(0), Text(CACHE_SCHEMA_VERSION)}

\* The page before the effects of its first render have run, with analysis
\* records of earlier sessions under the keys of the App and of lib/cache.ts.
InitStart ==
    /\ \E e \in [{AnalysisKey(i) : i \in RepoIds} ->
                    {Null, JSONstringify(FinalAnalysis(Result(0, "superficial", TRUE),
                                                       "superficial", ReadmeText))}],
          c \in {x \in InitCacheEntries : x = Null \/ x.kind = "json"},
          m \in InitMarkers :
          storage = StorageOf(e @@ (Key(CACHE_KEY_PREFIX, 1) :> c)
                                @@ (Key(CACHE_VERSION_KEY, 0) :> m))
    /\ now = 0
    /\ puts = [i \in RepoIds |-> NoPut]
    /\ repos = <<>>
    /\ localRepos = <<>>
    /\ selectedRepo = 0
    /\ analysis = IdleAnalysis
    /\ syncLimit = DefaultSyncLimit
    /\ closureLimit = DefaultSyncLimit
    /\ isSyncing = FALSE
    /\ loading = FALSE
    /\ fetches = EmptyBag
    /\ calls = EmptyBag
    /\ syncs = EmptyBag
    /\ deeps = EmptyBag
    /\ started = 0
    /\ last = [op |-> "init"]

\* The page from its first render on: the mount effects run first, then the
\* batch paths.
NextStart ==
    \/ \E q \in BOOLEAN : Mount(q)
    \/ (last.op # "init" /\ NextBatch)

SpecStart == InitStart /\ [][NextStart]_vars

(***************************************************************************)
(* services/localFileSystemService.ts: scanForRepos.                       *)
(***************************************************************************)
\* A directory entry: its kind and name, whether getDirectoryHandle('.git')
\* resolves on it, the entries values() yields, and failAt: 0 when the
\* iteration of values() succeeds, k when it throws in place of yielding the
\* k-th entry.
Entry(kind, name, git, failAt, kids) ==
    [kind |-> kind, name |-> name, git |-> git, failAt |-> failAt, kids |-> kids]

MaxKids == 3

\* The names the entries of the scanned directory get, by position.
SiblingNames == <<"a", "b", "c", "d">>

\* entry.name === 'node_modules' || 'dist' || 'build' || startsWith('.')
HiddenNames == {".cache"}

Skipped(name) == name \in {"node_modules", "dist", "build"} \cup HiddenNames

GitLeaf(name) == Entry("directory", name, TRUE, 0, <<>>)

\* The shapes of the children of the scanned directory: a repository, an
\* empty directory, a directory with a repository below it, a repository with
\* another .git two levels below it, a directory whose iteration fails before
\* its repository is reached, a file, and a noise directory with a repository.
ChildShapes(name) ==
    {GitLeaf(name),
     Entry("directory", name, FALSE, 0, <<>>),
     Entry("directory", name, FALSE, 0, <<GitLeaf("x")>>),
     Entry("directory", name, TRUE, 0,
           <<Entry("directory", "x", FALSE, 0, <<GitLeaf("y")>>)>>),
     Entry("directory", name, FALSE, 1, <<GitLeaf("x")>>),
     Entry("file", name, FALSE, 0, <<>>),
     Entry("directory", "node_modules", FALSE, 0, <<GitLeaf("x")>>)}

\* The sequences of at most n children, the i-th one named SiblingNames[i].
RECURSIVE KidSeqs(_)
KidSeqs(n) ==
    IF n = 0 THEN {<<>>}
    ELSE LET shorter == KidSeqs(n - 1)
         IN  shorter \cup
             {Append(ks, k) : ks \in {x \in shorter : Len(x) = n - 1},
                              k \in ChildShapes(SiblingNames[n])}

\* The directories the picker can hand to scanForRepos.
Trees ==
    {Entry("directory", "root", git, failAt, kids) :
        git \in BOOLEAN, failAt \in 0..MaxKids, kids \in KidSeqs(MaxKids)}

\* The record extractRepoMetadata(handle, path) returns, without its id:
\* full_name is `local/${path}`, the path kept as its sequence of names.
RepoMetadata(handle, path) == [name |-> handle.name, full_name |-> path]

RECURSIVE ScanForRepos(_, _), ScanEntries(_, _, _)
RECURSIVE ScanIntoRepos(_, _), ScanEntriesInto(_, _, _)
RECURSIVE HasReadFailure(_), AnyReadFailure(_, _)

\* A read failure somewhere in the subtree of an entry.
HasReadFailure(entry) ==
    entry.failAt # 0 \/ AnyReadFailure(entry.kids, 1)

AnyReadFailure(kids, i) ==
    /\ i <= Len(kids)
    /\ (HasReadFailure(kids[i]) \/ AnyReadFailure(kids, i + 1))

\* A scanForRepos that records a repository and descends into it all the same.
ScanIntoRepos(handle, path) ==
    (IF handle.git
     THEN <<RepoMetadata(handle, IF path = <<>> THEN <<handle.name>> ELSE path)>>
     ELSE <<>>)
    \o ScanEntriesInto(handle, path, 1)

ScanEntriesInto(handle, path, i) ==
    IF handle.failAt = i \/ i > Len(handle.kids) THEN <<>>
    ELSE LET entry == handle.kids[i]
         IN  (IF entry.kind = "directory" /\ ~Skipped(entry.name)
              THEN ScanIntoRepos(entry, Append(path, entry.name))
              ELSE <<>>)
             \o ScanEntriesInto(handle, path, i + 1)

\* scanForRepos(directoryHandle, path): the records it returns.
ScanForRepos(handle, path) ==
    IF handle.git
    THEN <<RepoMetadata(handle, IF path = <<>> THEN <<handle.name>> ELSE path)>>
    ELSE ScanEntries(handle, path, 1)

\* A loop over the entries that ends at the first child whose subtree had a
\* read failure, as if the failure left the child and the loop.
ScanEntriesUntilFailure(handle, path, i) ==
    IF handle.failAt = i \/ i > Len(handle.kids) THEN <<>>
    ELSE LET entry == handle.kids[i]
         IN  IF entry.kind = "directory" /\ ~Skipped(entry.name)
             THEN IF HasReadFailure(entry) THEN <<>>
                  ELSE ScanForRepos(entry, Append(path, entry.name))
                       \o ScanEntries(handle, path, i + 1)
             ELSE ScanEntries(handle, path, i + 1)

\* The loop of scanForRepos over values() from the i-th entry on: a failure of
\* the iteration is caught behind the loop and the records found so far are
\* returned; a child is scanned inside a try of its own.
ScanEntries(handle, path, i) ==
    IF handle.failAt = i \/ i > Len(handle.kids) THEN <<>>
    ELSE LET entry == handle.kids[i]
         IN  (IF entry.kind = "directory" /\ ~Skipped(entry.name)
              THEN ScanForRepos(entry, Append(path, entry.name))
              ELSE <<>>)
             \o ScanEntries(handle, path, i + 1)

\* scanForRepos(handle) on the directory showDirectoryPicker() returned.
scanForRepos ==
    /\ last.op = "showDirectoryPicker"
    /\ last' = [op |-> "scanForRepos", tree |-> last.tree,
                repos |-> ScanForRepos(last.tree, <<>>)]
    /\ UNCHANGED <<storage, now, puts>>
    /\ UNCHANGED appVars

InitTree ==
    /\ storage = StorageOf(<<>>)
    /\ now = 0
    /\ puts = [i \in RepoIds |-> NoPut]
    /\ \E tree \in Trees : last = [op |-> "showDirectoryPicker", tree |-> tree]
    /\ AppIdle

NextTree == scanForRepos

SpecTree == InitTree /\ [][NextTree]_vars

(***************************************************************************)
(* App.tsx: handleScanLocal.                                               *)
(***************************************************************************)
LOCAL_REPOS_KEY == "local_repos"

MaxScans == 2

\* Math.floor(Math.random() * 1000000): the ids a scan can give a record.
ScanIds == {3, 4}

\* The directories the user picks here: all their children are repositories.
ScanTrees ==
    {tree \in Trees :
        /\ tree.failAt = 0
        /\ \A i \in 1..Len(tree.kids) : tree.kids[i] = GitLeaf(SiblingNames[i])}

\* The records extractRepoMetadata built, with the ids it drew for them.
WithIds(found, ids) ==
    [i \in 1..Len(found) |->
        [id |-> ids[i], name |-> found[i].name, full_name |-> found[i].full_name]]

\* Array.from(new Map(list.map(r => [r.full_name, r])).values()): a Map keeps
\* a key at the position of its first set() and the value of its last one.
RECURSIVE MapValues(_, _)
MapValues(list, i) ==
    IF i > Len(list) THEN <<>>
    ELSE LET same == {j \in 1..Len(list) : list[j].full_name = list[i].full_name}
             lastSet == CHOOSE j \in same : \A k \in same : k <= j
         IN  (IF \A j \in same : i <= j THEN <<list[lastSet]>> ELSE <<>>)
             \o MapValues(list, i + 1)

UniqueLocal(updatedLocal) == MapValues(updatedLocal, 1)

\* The "Scan Local Folder" button (disabled while loading) up to the await of
\* selectAndScan(); the handler keeps the localRepos of its render.
handleScanLocal ==
    /\ ~loading
    /\ started < MaxScans
    /\ started' = started + 1
    /\ loading' = TRUE
    /\ fetches' = Add(fetches, [scan |-> TRUE, localRepos |-> localRepos])
    /\ last' = [op |-> "scan_start"]
    /\ UNCHANGED <<storage, now, puts, repos, localRepos, selectedRepo,
                   analysis, syncLimit, closureLimit, isSyncing, calls, syncs,
                   deeps>>

\* selectAndScan() returns: the picker was dismissed (it rejects), or the
\* scan of the picked directory returned its records, which are merged,
\* shown and stored; a setItem that throws is reported after setLocalRepos.
ScanLocalReturn(f, picked, tree, ids, quotaOk) ==
    LET newRepos == WithIds(ScanForRepos(tree, <<>>), ids)
        uniqueLocal == UniqueLocal(f.localRepos \o newRepos)
    IN  /\ fetches' = Remove(fetches, f)
        /\ loading' = FALSE
        /\ IF ~picked
           THEN /\ last' = [op |-> "scan_abort"]
                /\ UNCHANGED <<storage, localRepos>>
           ELSE /\ localRepos' = uniqueLocal
                /\ storage' = IF quotaOk
                              THEN setItem(storage, Key(LOCAL_REPOS_KEY, 0),
                                           JSONstringify(uniqueLocal))
                              ELSE storage
                /\ last' = [op |-> "scan_done", prev |-> f.localRepos,
                            tree |-> tree, newRepos |-> newRepos,
                            stored |-> quotaOk]
        /\ UNCHANGED <<now, puts, repos, selectedRepo, analysis, syncLimit,
                       closureLimit, isSyncing, calls, syncs, deeps, started>>

InitScan ==
    /\ storage = StorageOf(<<>>)
    /\ now = 0
    /\ puts = [i \in RepoIds |-> NoPut]
    /\ last = [op |-> "init"]
    /\ AppIdle

NextScan ==
    \/ handleScanLocal
    \/ \E f \in BagToSet(fetches), picked \in BOOLEAN, tree \in ScanTrees,
          quotaOk \in BOOLEAN :
          \E ids \in [1..Len(ScanForRepos(tree, <<>>)) -> ScanIds] :
              ScanLocalReturn(f, picked, tree, ids, quotaOk)

SpecScan == InitScan /\ [][NextScan]_vars

(***************************************************************************)
(* App.tsx: handleDeleteRepo and confirmDeleteRepo.                        *)
(***************************************************************************)
\* The delete flow is held as one record: repoToDelete is its repo, and
\* deletingRepoId is set while its pc is "deleteRepo", where
\* confirmDeleteRepo is suspended.
DeleteFlows == {f \in BagToSet(fetches) : "repoToDelete" \in DOMAIN f}

\* deleteRepo: GitHub answers 204, or anything else and the service throws.
\* A local record's full_name names no repository of the token's owner.
DeleteOutcomes(repo) == IF IsLocal(repo) THEN {"error"} ELSE {"204", "error"}

\* The delete button of a repository card: setRepoToDelete(repo) opens the
\* confirmation dialog, which covers the dashboard.
handleDeleteRepo(repo) ==
    /\ DashboardReachable
    /\ repo \in Listed
    /\ DeleteFlows = {}
    /\ fetches' = Add(fetches, [repoToDelete |-> repo, pc |-> "dialog"])
    /\ last' = [op |-> "delete_ask", repo |-> repo]
    /\ UNCHANGED <<storage, now, puts, repos, localRepos, selectedRepo,
                   analysis, syncLimit, closureLimit, isSyncing, loading,
                   calls, syncs, deeps, started>>

\* "Keep Repository" (disabled while deleting): setRepoToDelete(null).
CancelDelete(f) ==
    /\ f.pc = "dialog"
    /\ fetches' = Remove(fetches, f)
    /\ last' = [op |-> "delete_cancel", repo |-> f.repoToDelete]
    /\ UNCHANGED <<storage, now, puts, repos, localRepos, selectedRepo,
                   analysis, syncLimit, closureLimit, isSyncing, loading,
                   calls, syncs, deeps, started>>

\* "Delete Permanently" (disabled while deleting): confirmDeleteRepo up to
\* await service.deleteRepo(repo.full_name).
confirmDeleteRepo(f) ==
    /\ f.pc = "dialog"
    /\ fetches' = Replace(fetches, f, [f EXCEPT !.pc = "deleteRepo"])
    /\ last' = [op |-> "delete_start", repo |-> f.repoToDelete]
    /\ UNCHANGED <<storage, now, puts, repos, localRepos, selectedRepo,
                   analysis, syncLimit, closureLimit, isSyncing, loading,
                   calls, syncs, deeps, started>>

\* prevRepos.filter(r => r.id !== repo.id)
FilterRepos(prevRepos, id) == SelectSeq(prevRepos, LAMBDA r : r # id)

\* deleteRepo resolves or rejects inside confirmDeleteRepo: on success the
\* repository leaves repos and the dialog closes, on failure the dialog stays.
DeleteRepoReturn(f, outcome) ==
    /\ f.pc = "deleteRepo"
    /\ outcome \in DeleteOutcomes(f.repoToDelete)
    /\ IF outcome = "204"
       THEN /\ repos' = FilterRepos(repos, f.repoToDelete)
            /\ fetches' = Remove(fetches, f)
            /\ last' = [op |-> "delete_done", repo |-> f.repoToDelete]
       ELSE /\ repos' = repos
            /\ fetches' = Replace(fetches, f, [f EXCEPT !.pc = "dialog"])
            /\ last' = [op |-> "delete_error", repo |-> f.repoToDelete]
    /\ UNCHANGED <<storage, now, puts, localRepos, selectedRepo, analysis,
                   syncLimit, closureLimit, isSyncing, loading, calls, syncs,
                   deeps, started>>

\* The dashboard with the fetched list, the local collection and any stored
\* analyses.
InitDelete ==
    /\ \E e \in [{AnalysisKey(i) : i \in RepoIds \cup LocalIds}
                    -> InitAnalysisEntries \ {Garbage}] :
          storage = StorageOf(e)
    /\ now = 0
    /\ puts = [i \in RepoIds |-> NoPut]
    /\ repos \in RemoteLists
    /\ localRepos \in {<<>>, <<3>>}
    /\ selectedRepo = 0
    /\ analysis = IdleAnalysis
    /\ syncLimit = DefaultSyncLimit
    /\ closureLimit = DefaultSyncLimit
    /\ isSyncing = FALSE
    /\ loading = FALSE
    /\ fetches = EmptyBag
    /\ calls = EmptyBag
    /\ syncs = EmptyBag
    /\ deeps = EmptyBag
    /\ started = 0
    /\ last = [op |-> "init"]

NextDelete ==
    \/ \E repo \in RepoIds \cup LocalIds : handleDeleteRepo(repo)
    \/ \E f \in DeleteFlows : CancelDelete(f)
    \/ \E f \in DeleteFlows : confirmDeleteRepo(f)
    \/ \E f \in DeleteFlows, outcome \in {"204", "error"} :
          DeleteRepoReturn(f, outcome)

SpecDelete == InitDelete /\ [][NextDelete]_vars

(***************************************************************************)
(* Observers of the state that the properties below are stated with.       *)
(***************************************************************************)
\* The cache entry of a repository as handleAnalyze reads it: Null when there
\* is none, Garbage when JSON.parse rejects it, the parsed record otherwise.
CachedAnalysisOf(st, id) ==
    LET raw == getItem(st, AnalysisKey(id))
    IN  IF raw = Null THEN Null
        ELSE IF ~JSONparse(raw).ok THEN Garbage
        ELSE [kind |-> "record", val |-> JSONparse(raw).val]

\* The level of the stored record of a repository, "none" without a record.
StoredLevel(st, id) ==
    LET c == CachedAnalysisOf(st, id)
    IN  IF c = Null \/ c = Garbage THEN "none" ELSE c.val.level

\* The number of members of a bag of suspended invocations that work on id.
CountCalls(id) ==
    BagCardinality([c \in {x \in BagToSet(calls) : x.repo = id} |-> calls[c]])

CountSyncs(id) ==
    BagCardinality([r \in {x \in BagToSet(syncs) : x.list[x.i] = id} |-> syncs[r]])

CountDeeps(id) ==
    BagCardinality([r \in {x \in BagToSet(deeps) : x.list[x.i] = id} |-> deeps[r]])

\* The analyses in flight for one repository id: suspended between the
\* handler's first await and its cache write or its catch.
InFlight(id) == CountCalls(id) + CountSyncs(id) + CountDeeps(id)

\* The steps in which handleAnalyze is invoked, and those in which an
\* invocation ends.
AnalyzeInvoked == {"analyze_throw", "analyze_hit", "analyze_start"}

AnalyzeEnded == {"analyze_success", "analyze_error"}

\* The texts that stand in for a README that could not be fetched.
Placeholders == {NoReadmeFound, NoReadmeContent}

(***************************************************************************)
(* Properties.                                                             *)
(***************************************************************************)
\* C1: when handleAnalyze is invoked for a repository whose cache entry is a
\* record, and the requested level is superficial or the record's level is
\* detailed, the step shows that record with status success, leaves the
\* storage unchanged and suspends no request (no README fetch, no tree fetch,
\* no provider call).
C1_CacheHitServesRecord ==
    [][\A id \in RepoIds \cup LocalIds, level \in Levels :
          LET cached == CachedAnalysisOf(storage, id)
          IN  (/\ last'.op \in AnalyzeInvoked
               /\ last'.repo = id
               /\ last'.level = level
               /\ cached # Null
               /\ cached # Garbage
               /\ (level = "superficial" \/ cached.val.level = "detailed"))
              => /\ last'.op = "analyze_hit"
                 /\ analysis' = cached.val
                 /\ analysis'.status = "success"
                 /\ selectedRepo' = id
                 /\ storage' = storage
                 /\ <<calls, fetches, syncs, deeps>>' = <<calls, fetches, syncs, deeps>>
      ]_vars

\* A superficial request was served a detailed record from the cache.
C1_Witness ==
    /\ last.op = "analyze_hit"
    /\ last.level = "superficial"
    /\ analysis.level = "detailed"
    /\ analysis.status = "success"
    /\ CachedAnalysisOf(storage, last.repo) = [kind |-> "record", val |-> analysis]

\* C2: once the stored record of a repository is detailed, no step of
\* handleAnalyze or of the standard batch leaves a superficial record in its
\* place, also not the end of an analysis that started earlier.
C2_LevelNeverDowngraded ==
    [][\A id \in RepoIds \cup LocalIds :
          (/\ StoredLevel(storage, id) = "detailed"
           /\ last'.op \notin {"deep_work", "deep_stop", "deep_readme"})
          => StoredLevel(storage', id) # "superficial"
      ]_vars

\* C3: when an invocation of handleAnalyze ends in its catch, the status is
\* error and the cache entry of its repository is the one the invocation read
\* when it began; an id without an entry then still has none.
C3_ErrorLeavesEntry ==
    last.op = "analyze_error"
    => /\ analysis.status = "error"
       /\ CachedAnalysisOf(storage, last.repo) = last.cached

\* C4: the status becomes success, other than by a cache hit, only in the
\* step in which handleAnalyze ends successfully, and after that step the
\* entry of the repository is the stored form of the record shown, whose
\* level is the requested level and whose fullReadme is the context that was
\* passed to the provider.
C4_SuccessAfterWrite ==
    [][/\ (/\ analysis'.status = "success"
           /\ analysis' # analysis
           /\ last'.op # "analyze_hit")
          => last'.op = "analyze_success"
       /\ last'.op = "analyze_success"
          => /\ getItem(storage', AnalysisKey(last'.repo)) = JSONstringify(analysis')
             /\ analysis'.status = "success"
             /\ analysis'.level = last'.level
             /\ analysis'.fullReadme = last'.readme
             /\ analysis'.pulse = [repo |-> last'.repo, level |-> last'.level]
      ]_vars

\* A detailed analysis of a repository that had a superficial record has
\* ended successfully and its record is stored.
C4_Witness ==
    /\ last.op = "analyze_success"
    /\ last.level = "detailed"
    /\ last.cached # Null
    /\ StoredLevel(storage, last.repo) = "detailed"
    /\ analysis.fullReadme = ReadmeText

\* C5: no repository id has two analyses in flight at once, whichever of
\* handleAnalyze, syncRepositories and handleDeepSyncAll started them.
C5_SingleFlight ==
    \A id \in RepoIds \cup LocalIds : InFlight(id) <= 1

\* C6: a standard batch run works on the first min(limit, length) repositories
\* of the list it was given, limit being the sync limit of the saved settings
\* when the run started, and it ends behind the last of them.
C6_BatchUsesConfiguredLimit ==
    /\ \A run \in BagToSet(syncs) : run.list = Slice(run.src, run.configured)
    /\ last.op \in {"sync_fetch", "sync_stop"}
       => last.list = Slice(last.src, last.configured)
    /\ last.op = "sync_stop" => last.i = Len(last.list) + 1

\* C7: a batch run, standard or deep, ends only behind the last repository of
\* its list: no failure of a README fetch, a provider call, a cache read or a
\* cache write ends it earlier.
C7_BatchRunsToTheEnd ==
    last.op \in {"sync_stop", "deep_stop"} => last.i > Len(last.list)

\* C8: the retry control starts handleAnalyze anew at the context fetch, with
\* the level of the request that failed.
C8_RetryKeepsLevel ==
    [][(last'.op \in AnalyzeInvoked /\ last'.via = "retry")
       => /\ last'.level = analysis.level
          /\ last'.repo = selectedRepo
      ]_vars

\* C9: when the README fetch of a superficial request without a cache entry
\* fails, handleAnalyze goes on to the provider with a placeholder text as the
\* context, and when the provider call succeeds it ends in success with that
\* placeholder stored as fullReadme.
C9_ReadmeFailureStillSucceeds ==
    /\ (last.op = "analyze_readme" /\ last.failed /\ last.level = "superficial")
       => /\ last.readme \in Placeholders
          /\ \E c \in BagToSet(calls) :
                /\ c.repo = last.repo
                /\ c.pc = "provider"
                /\ c.readme = last.readme
    /\ (/\ last.op \in AnalyzeEnded
        /\ last.cached = Null
        /\ last.level = "superficial"
        /\ last.readme \in Placeholders
        /\ last.providerOk)
       => /\ last.op = "analyze_success"
          /\ analysis.status = "success"
          /\ analysis.fullReadme = last.readme
          /\ getItem(storage, AnalysisKey(last.repo)) = JSONstringify(analysis)

C11_StaleRecordRemoved ==
    [][\A id \in RepoIds :
          (last'.op = "getCachedAnalysis" /\ last'.id = id)
          => LET key == Key(CACHE_KEY_PREFIX, id)
             IN  /\ FoundEntry(storage, id) = "stale"
                    => /\ last'.ret = Null
                       /\ key \notin DOMAIN storage'
                       /\ DOMAIN storage' = DOMAIN storage \ {key}
                       /\ \A k \in DOMAIN storage' : storage'[k] = storage[k]
                 /\ FoundEntry(storage, id) = "absent"
                    => /\ last'.ret = Null
                       /\ storage' = storage
      ]_vars

\* A getCachedAnalysis met a record of another schema version; the entry is
\* gone and the entry of the other id is still stored.
C11_Witness ==
    /\ last.op = "getCachedAnalysis"
    /\ last.found = "stale"
    /\ last.ret = Null
    /\ FoundEntry(storage, last.id) = "absent"
    /\ \E other \in RepoIds \ {last.id} : FoundEntry(storage, other) # "absent"

\* C12: after a getCachedAnalysis that met an entry JSON.parse rejects, null
\* was returned and the entry is no longer stored.
C12_UnparsableEntryDeleted ==
    (last.op = "getCachedAnalysis" /\ last.found = "unparsable")
    => /\ last.ret = Null
       /\ FoundEntry(storage, last.id) = "absent"

\* C13: when handleAnalyze is invoked for a repository whose cache entry is
\* malformed (JSON.parse rejects it), the entry counts as absent: the
\* invocation starts an analysis as on a cache miss, showing the
\* fetching_readme status and suspending at the README fetch.
C13_MalformedTreatedAsAbsent ==
    [][\A id \in RepoIds \cup LocalIds :
          (/\ last'.op \in AnalyzeInvoked
           /\ last'.repo = id
           /\ CachedAnalysisOf(storage, id) = Garbage)
          => /\ last'.op = "analyze_start"
             /\ analysis' = FetchingAnalysis(last'.level)
             /\ \E c \in BagToSet(calls') :
                   c.repo = id /\ c.cached = Null /\ c.pc = "readme"
      ]_vars

\* C14: when the provider call of a handleAnalyze invocation has succeeded,
\* the invocation ends in success with the computed result shown, also when
\* localStorage refuses the write for lack of quota; in that case the stored
\* entry stays what the invocation read.
C14_QuotaFailureAbsorbed ==
    (last.op \in AnalyzeEnded /\ last.providerOk)
    => /\ analysis.status = "success"
       /\ analysis.level = last.level
       /\ analysis.pulse = [repo |-> last.repo, level |-> last.level]
       /\ last.op = "analyze_error"
          => CachedAnalysisOf(storage, last.repo) = last.cached

\* C15: when the page starts with a schema-version marker older than the
\* current constant (or with none), the start-up migration leaves no analysis
\* record in storage, neither under the keys lib/cache.ts reads nor under the
\* keys handleAnalyze and the batch paths read, and the marker is then the
\* current constant.
C15_MigrationClearsRecords ==
    [][(last'.op = "mount" /\ StoredVersionNumber(storage) < CACHE_SCHEMA_VERSION)
       => /\ \A id \in RepoIds \cup LocalIds :
                /\ getItem(storage', Key(CACHE_KEY_PREFIX, id)) = Null
                /\ CachedAnalysisOf(storage', id) = Null
          /\ StoredVersionNumber(storage') = CACHE_SCHEMA_VERSION
      ]_vars

\* The entry of a tree at a path of names below its root; the root at <<>>.
RECURSIVE EntryAt(_, _)
EntryAt(entry, path) ==
    IF path = <<>> THEN entry
    ELSE LET named == {i \in 1..Len(entry.kids) : entry.kids[i].name = path[1]}
         IN  EntryAt(entry.kids[CHOOSE i \in named : TRUE], Tail(path))

\* The path below the scanned directory a record was found at.
PathOf(tree, repo) ==
    IF repo.full_name = <<tree.name>> THEN <<>> ELSE repo.full_name

Prefixes(path) == {SubSeq(path, 1, n) : n \in 0..(Len(path) - 1)}

\* C17: a directory that holds .git yields exactly one record, for itself, and
\* nothing below it is scanned: every record of a scan is for a directory
\* with .git none of whose ancestors in the scan has .git, so a nested .git
\* yields no record; a directory without .git yields no record for itself;
\* no directory is recorded twice.
C17_GitRootYieldsOneRecord ==
    last.op = "scanForRepos" =>
        LET tree == last.tree
            found == last.repos
        IN  /\ tree.git =>
                found = <<[name |-> tree.name, full_name |-> <<tree.name>>]>>
            /\ ~tree.git =>
                \A i \in 1..Len(found) : found[i].full_name # <<tree.name>>
            /\ \A i \in 1..Len(found) :
                LET path == PathOf(tree, found[i])
                IN  /\ EntryAt(tree, path).git
                    /\ found[i].name = EntryAt(tree, path).name
                    /\ \A above \in Prefixes(path) : ~EntryAt(tree, above).git
            /\ \A i, j \in 1..Len(found) :
                found[i].full_name = found[j].full_name => i = j

\* Below a scanned directory without .git, a repository that has another
\* .git two levels below it was recorded for itself, and no record was made
\* at that depth.
C17_Witness ==
    /\ last.op = "scanForRepos"
    /\ ~last.tree.git
    /\ \E i \in 1..Len(last.tree.kids) :
          LET kid == last.tree.kids[i]
          IN  /\ kid.git
              /\ kid.kids # <<>>
              /\ EntryAt(kid, <<"x", "y">>).git
              /\ \E j \in 1..Len(last.repos) :
                    last.repos[j].full_name = <<kid.name>>
    /\ \A j \in 1..Len(last.repos) : Len(last.repos[j].full_name) < 3

\* C18: a read failure in the subtree of one child of the scanned directory
\* loses no record of the other children: the scan returns the records of
\* every sibling the iteration reaches, those before and those after the
\* failing child, each as a scan of that sibling alone returns them.
C18_ChildFailureIsolated ==
    last.op = "scanForRepos" /\ ~last.tree.git =>
        LET tree == last.tree
            reached == {i \in 1..Len(tree.kids) :
                            tree.failAt = 0 \/ i < tree.failAt}
            Records(seq) == {seq[k] : k \in 1..Len(seq)}
        IN  \A j \in reached :
                HasReadFailure(tree.kids[j]) =>
                    \A i \in reached \ {j} :
                        LET kid == tree.kids[i]
                        IN  kid.kind = "directory" /\ ~Skipped(kid.name) =>
                                Records(ScanForRepos(kid, <<kid.name>>))
                                    \subseteq Records(last.repos)

\* The second of three children failed and the repositories of the first and
\* of the third were returned.
C18_Witness ==
    /\ last.op = "scanForRepos"
    /\ ~last.tree.git
    /\ last.tree.failAt = 0
    /\ Len(last.tree.kids) = 3
    /\ HasReadFailure(last.tree.kids[2])
    /\ last.tree.kids[1].git
    /\ last.tree.kids[3].git
    /\ last.repos = <<[name |-> "a", full_name |-> <<"a">>],
                      [name |-> "c", full_name |-> <<"c">>]>>

\* C16: when a scan returns a record whose full_name a record of the local
\* collection already has, the collection afterwards holds exactly one record
\* of that full_name and it is the earlier record, id included; a record of a
\* new full_name is added.
C16_FirstSeenWins ==
    last.op = "scan_done" =>
        LET Named(list, name) ==
                {i \in 1..Len(list) : list[i].full_name = name}
        IN  /\ \A i \in 1..Len(last.prev) :
                LET kept == Named(localRepos, last.prev[i].full_name)
                IN  /\ Cardinality(kept) = 1
                    /\ \A k \in kept : localRepos[k] = last.prev[i]
            /\ \A i \in 1..Len(last.newRepos) :
                Named(last.prev, last.newRepos[i].full_name) = {} =>
                    \E k \in 1..Len(localRepos) :
                        localRepos[k] = last.newRepos[i]

\* The entry of a repository is absent or carries no vitalityScore.
LacksMarker(st, repo) ==
    LET raw == getItem(st, AnalysisKey(repo))
    IN  raw = Null \/ ~JSONparse(raw).ok \/ ~JSONparse(raw).val.vitality

\* C19: the deep batch decides on every repository of its list: it passes
\* the ones whose entry carries vitalityScore without writing their entry,
\* stops to re-run the first one whose entry is absent or has no
\* vitalityScore, and ends only behind the list; and a step that replaces a
\* stored record of a repository is a step of the deep batch writing the
\* repository it re-ran (no step of these batches requests a higher level).
C19_DeepBatchRerunsUnmarked ==
    [][/\ last'.op \in {"deep_work", "deep_stop"} =>
            /\ \A k \in last'.from..(last'.i - 1) :
                  /\ ~LacksMarker(storage', last'.list[k])
                  /\ getItem(storage', AnalysisKey(last'.list[k]))
                        = getItem(storage, AnalysisKey(last'.list[k]))
            /\ last'.op = "deep_work" =>
                  LacksMarker(storage', last'.list[last'.i])
            /\ last'.op = "deep_stop" => last'.i > Len(last'.list)
       /\ \A id \in RepoIds \cup LocalIds :
            LET before == getItem(storage, AnalysisKey(id))
                after == getItem(storage', AnalysisKey(id))
            IN  JSONparse(before).ok /\ after # before =>
                    /\ last'.op \in {"deep_work", "deep_stop"}
                    /\ last'.from > 1
                    /\ last'.list[last'.from - 1] = id
      ]_vars

\* C20: no run of the standard batch or of the deep batch has issued more
\* provider calls than the sync limit of the saved settings when it started.
C20_ProviderCallsWithinLimit ==
    \A run \in BagToSet(syncs) \cup BagToSet(deeps) :
        run.issued <= run.configured

\* C21: a tree fetch of a detailed request that is answered with 404 does not
\* end handleAnalyze in error: the step that takes the answer goes on to the
\* provider call, with the status analyzing.
C21_TreeNotFoundAbsorbed ==
    [][\A call \in BagToSet(calls) :
          (/\ call.pc = "tree"
           /\ CopiesIn(call, calls') < CopiesIn(call, calls)
           /\ last'.op \in {"analyze_tree", "analyze_error"}
           /\ last'.outcome = "http404")
          => /\ last'.op = "analyze_tree"
             /\ analysis'.status = "analyzing"
             /\ \E next \in BagToSet(calls') :
                   next = [call EXCEPT !.pc = "provider"]
      ]_vars

\* C22: an analysis in the error status carries a kind next to its message,
\* and when handleAnalyze ended on a provider failure that mentions 429 the
\* kind is RateLimited.
C22_ErrorCarriesKind ==
    analysis.status = "error" =>
        /\ "kind" \in DOMAIN analysis
        /\ analysis.errorDetails # ""
        /\ (/\ last.op = "analyze_error"
            /\ last.stage = "provider"
            /\ last.outcome = "http429") => analysis.kind = "RateLimited"

\* C23: the id of a local record is stable and unique: when the scanned
\* directory holds exactly the repositories the local collection already has
\* (the same directory is scanned again), every record of the scan has the id
\* of the collection's record of that full_name; and no two repositories of
\* the remote and local collections share an id.
C23_LocalIdStableUnique ==
    LET FullNames(list) == {list[k].full_name : k \in 1..Len(list)}
        ids == repos \o [k \in 1..Len(localRepos) |-> localRepos[k].id]
    IN  /\ (/\ last.op = "scan_done"
            /\ FullNames(last.prev) = FullNames(last.newRepos))
           => \A i \in 1..Len(last.prev), j \in 1..Len(last.newRepos) :
                 last.prev[i].full_name = last.newRepos[j].full_name
                 => last.prev[i].id = last.newRepos[j].id
        /\ \A i, j \in 1..Len(ids) : ids[i] = ids[j] => i = j

\* C24: when deleteRepo succeeded, the repository is no longer listed and no
\* analysis is stored for it; when it failed, the list and the stored
\* analyses are what they were.
C24_DeleteRemovesRecord ==
    [][/\ last'.op = "delete_done" =>
            /\ last'.repo \notin Listed'
            /\ getItem(storage', AnalysisKey(last'.repo)) = Null
       /\ last'.op = "delete_error" =>
            /\ AllRepos' = AllRepos
            /\ storage' = storage
      ]_vars

\* C25: while a fetchRepos invocation is suspended at fetchUserRepos the
\* loading flag is set, so the refresh and the quick-sync control start a
\* fetch only when none is running, and the step that takes the answer of a
\* fetch, data or error, clears the flag.
C25_LoadingWhileFetching ==
    [][/\ fetches' # EmptyBag => loading'
       /\ last'.op = "fetch_start" => fetches = EmptyBag
       /\ BagCardinality(fetches') < BagCardinality(fetches) => ~loading'
      ]_vars

\* C26: the status of the analysis becomes analyzing only from
\* fetching_readme; a step that suspends handleAnalyze at the provider call
\* leaves the status analyzing; and the status becomes success only from
\* analyzing, or in the step of a cache hit: a step in which handleAnalyze
\* ends in success starts from analyzing.
C26_StatusOrder ==
    [][/\ (analysis'.status = "analyzing" /\ analysis.status # "analyzing")
          => analysis.status = "fetching_readme"
       /\ (\E call \in BagToSet(calls') :
              /\ call.pc = "provider"
              /\ CopiesIn(call, calls') > CopiesIn(call, calls))
          => analysis'.status = "analyzing"
       /\ last'.op = "analyze_success" => analysis.status = "analyzing"
       /\ (analysis'.status = "success" /\ analysis.status # "success")
          => (last'.op = "analyze_hit" \/ analysis.status = "analyzing")
      ]_vars

\* C27: when handleAnalyze is invoked at the detailed level for a repository
\* whose entry is a superficial record with a non-empty fullReadme, it is
\* suspended at the tree fetch with that text as its context and at no README
\* fetch; when the tree fetch succeeds it goes on to the provider call with
\* the same context; and when it ends in success, the record it has stored
\* has that text as its fullReadme.
C27_DetailedReusesContext ==
    [][/\ \A id \in RepoIds \cup LocalIds :
            LET cached == CachedAnalysisOf(storage, id)
            IN  (/\ last'.op \in AnalyzeInvoked
                 /\ last'.repo = id
                 /\ last'.level = "detailed"
                 /\ cached # Null
                 /\ cached # Garbage
                 /\ cached.val.level = "superficial"
                 /\ cached.val.fullReadme # "")
                => /\ last'.op = "analyze_start"
                   /\ \E call \in BagToSet(calls') :
                         /\ call = [repo |-> id, level |-> "detailed",
                                    cached |-> cached,
                                    readme |-> cached.val.fullReadme,
                                    pc |-> "tree"]
                         /\ calls' = Add(calls, call)
       /\ (last'.op = "analyze_tree" /\ last'.outcome = "ok")
          => \E call \in BagToSet(calls) :
                /\ call.pc = "tree"
                /\ call.repo = last'.repo
                /\ calls' = Replace(calls, call, [call EXCEPT !.pc = "provider"])
       /\ (/\ last'.op = "analyze_success"
           /\ last'.level = "detailed"
           /\ last'.cached # Null
           /\ last'.cached.val.fullReadme # "")
          => /\ last'.readme = last'.cached.val.fullReadme
             /\ CachedAnalysisOf(storage', last'.repo).val.fullReadme
                   = last'.cached.val.fullReadme
             /\ CachedAnalysisOf(storage', last'.repo).val.level = "detailed"
      ]_vars

\* A detailed analysis that started from a superficial record and its context
\* has ended in success, and the stored detailed record carries that context.
C27_Witness ==
    /\ last.op = "analyze_success"
    /\ last.level = "detailed"
    /\ last.cached # Null
    /\ last.cached.val.level = "superficial"
    /\ last.cached.val.fullReadme = ReadmeText
    /\ last.readme = ReadmeText
    /\ CachedAnalysisOf(storage, last.repo).val.fullReadme = ReadmeText
    /\ CachedAnalysisOf(storage, last.repo).val.level = "detailed"

\* The reports a step of the standard batch emits, in their order.
ReportsInOrder(reports, list, first) ==
    \A n \in 1..Len(reports) :
        /\ reports[n].current = first + n - 1
        /\ reports[n].current < reports[n].total
        /\ reports[n].currentName = list[reports[n].current + 1]

\* C28: a standard batch run reports {current, total, currentName} before
\* each repository it comes to, with total the smaller of the sync limit of
\* the saved settings and the length of the list it was given, currentName
\* that repository and current the number of repositories behind it: the
\* first report of a run has current 0, each next one has one more, and
\* current stays below total.
C28_ProgressReports ==
    [][last'.op \in {"sync_fetch", "sync_stop"} =>
          LET first == IF \E run \in BagToSet(syncs) :
                             /\ run.list = last'.list
                             /\ run.src = last'.src
                             /\ CopiesIn(run, syncs') < CopiesIn(run, syncs)
                       THEN (CHOOSE run \in BagToSet(syncs) :
                                /\ run.list = last'.list
                                /\ run.src = last'.src
                                /\ CopiesIn(run, syncs') < CopiesIn(run, syncs)).i
                       ELSE 0
          IN  /\ ReportsInOrder(last'.reports, last'.list, first)
              /\ \A n \in 1..Len(last'.reports) :
                    last'.reports[n].total
                        = Min(last'.configured, Len(last'.src))
              /\ last'.op = "sync_fetch" =>
                    /\ last'.reports # <<>>
                    /\ last'.reports[Len(last'.reports)].currentName
                          = last'.list[last'.i]
      ]_vars

\* C29: whenever a repository is selected and the status is success, the
\* analysis shown is the one stored for that repository, or the one that the
\* provider computed for it.
C29_AnalysisOfSelectedRepo ==
    (selectedRepo # 0 /\ analysis.status = "success")
    => \/ CachedAnalysisOf(storage, selectedRepo)
             = [kind |-> "record", val |-> analysis]
       \/ analysis.pulse.repo = selectedRepo

\* C30: under fair answering of the README fetches and provider calls, every
\* run of the standard batch ends, whatever failed: whenever runs are
\* suspended, a state follows in which none is and isSyncing is false; and
\* the step in which a run ends leaves isSyncing false.
C30_BatchTerminates ==
    /\ (syncs # EmptyBag) ~> (syncs = EmptyBag /\ ~isSyncing)
    /\ [][last'.op = "sync_stop" => ~isSyncing']_vars

\* A run over two repositories has ended behind its list with nothing stored
\* for either of them, and the overlay is gone.
C30_Witness ==
    /\ last.op = "sync_stop"
    /\ Len(last.list) = 2
    /\ last.i = 3
    /\ \A k \in 1..2 : getItem(storage, AnalysisKey(last.list[k])) = Null
    /\ syncs = EmptyBag
    /\ ~isSyncing

====
